---- MODULE Spec2Model ----
(***************************************************************************)
(* A model of KCSC/app.py: the KCSCBot client of the KCSC OpenAPI          *)
(* (catalog cache, local matcher, content fetcher, JSON transport and key  *)
(* redaction).                                                             *)
(*                                                                         *)
(* Python values are tagged records [t, v]; a str is the sequence of its   *)
(* code points, each code point a one-element TLA+ string.  Hangul         *)
(* syllables are written romanised ("pi" "bok" for U+D53C U+BCF5): one     *)
(* TLA+ string per code point, so len() and slicing count as in Python.    *)
(***************************************************************************)
EXTENDS Integers, Sequences, FiniteSets, TLC

VARIABLES
    codelist,      \* st.session_state["kcsc_codelist_<doc_type>"], per doc_type
    codelist_ts,   \* st.session_state["kcsc_codelist_<doc_type>_ts"], per doc_type
    now,           \* time.time(), in seconds since the session started
    ticks,         \* how many times the clock has advanced
    remote,        \* what the KCSC service holds: the listing of each doc_type
    api_key,       \* KCSCBot.api_key
    pc,            \* "idle": between calls; "done": a call has returned or raised
    ret            \* the call that just ended: its arguments and its outcome

vars == <<codelist, codelist_ts, now, ticks, remote, api_key, pc, ret>>

----------------------------------------------------------------------------
(* Python values *)

PyNone == [t |-> "none", v |-> <<>>]
PyStr(s) == [t |-> "str", v |-> s]
PyInt(n) == [t |-> "int", v |-> n]
PyList(xs) == [t |-> "list", v |-> xs]
PyDict(f) == [t |-> "dict", v |-> f]

\* dict.get(k): the value under k, None when k is not a key
Get(item, k) == IF k \in DOMAIN item.v THEN item.v[k] ELSE PyNone

\* bool(v)
Truthy(x) ==
    CASE x.t = "none" -> FALSE
      [] x.t = "str" -> x.v # <<>>
      [] x.t = "int" -> x.v # 0
      [] x.t = "list" -> x.v # <<>>
      [] x.t = "dict" -> DOMAIN x.v # {}

\* a or b
Or(a, b) == IF Truthy(a) THEN a ELSE b

Digits == <<"0", "1", "2", "3", "4", "5", "6", "7", "8", "9">>

RECURSIVE Decimal(_)
Decimal(n) == IF n < 10 THEN <<Digits[n + 1]>> ELSE Decimal(n \div 10) \o <<Digits[(n % 10) + 1]>>

\* str(v) for the values a JSON field holds here: None, a str, a non-negative int
ToStr(x) ==
    CASE x.t = "none" -> <<"N", "o", "n", "e">>
      [] x.t = "str" -> x.v
      [] x.t = "int" -> Decimal(x.v)

----------------------------------------------------------------------------
(* str operations *)

Whitespace == {" ", "\t", "\n"}

Uppers == <<"A", "B", "C", "D", "E", "F", "G", "H", "I", "J", "K", "L", "M",
            "N", "O", "P", "Q", "R", "S", "T", "U", "V", "W", "X", "Y", "Z">>
Lowers == <<"a", "b", "c", "d", "e", "f", "g", "h", "i", "j", "k", "l", "m",
            "n", "o", "p", "q", "r", "s", "t", "u", "v", "w", "x", "y", "z">>

UpperSet == {Uppers[i] : i \in 1..Len(Uppers)}

LowerChar(c) ==
    IF c \in UpperSet
    THEN Lowers[CHOOSE i \in 1..Len(Uppers) : Uppers[i] = c]
    ELSE c

\* str.lower()
RECURSIVE Lower(_)
Lower(s) == IF s = <<>> THEN <<>> ELSE <<LowerChar(Head(s))>> \o Lower(Tail(s))

\* str.startswith / str.endswith
StartsWith(s, p) == Len(p) <= Len(s) /\ SubSeq(s, 1, Len(p)) = p
EndsWith(s, p) == Len(p) <= Len(s) /\ SubSeq(s, Len(s) - Len(p) + 1, Len(s)) = p

\* sub in s
Contains(sub, s) ==
    \E i \in 0..(Len(s) - Len(sub)) : SubSeq(s, i + 1, i + Len(sub)) = sub

\* s[:n]
Take(s, n) == SubSeq(s, 1, IF n < Len(s) THEN n ELSE Len(s))

RECURSIVE LStrip(_)
LStrip(s) == IF s # <<>> /\ Head(s) \in Whitespace THEN LStrip(Tail(s)) ELSE s

RECURSIVE RStrip(_)
RStrip(s) ==
    IF s # <<>> /\ s[Len(s)] \in Whitespace THEN RStrip(SubSeq(s, 1, Len(s) - 1)) ELSE s

\* str.strip()
Strip(s) == RStrip(LStrip(s))

\* the first whitespace-free run of s and what follows it (s starts with no whitespace)
RECURSIVE WordEnd(_, _)
WordEnd(s, i) == IF i <= Len(s) /\ s[i] \notin Whitespace THEN WordEnd(s, i + 1) ELSE i

\* str.split(): the whitespace-separated words, none empty
RECURSIVE Split(_)
Split(s) ==
    LET r == LStrip(s)
        e == WordEnd(r, 1)
    IN  IF r = <<>> THEN <<>>
        ELSE <<SubSeq(r, 1, e - 1)>> \o Split(SubSeq(r, e, Len(r)))

\* "".join(xs)
RECURSIVE Concat(_)
Concat(xs) == IF xs = <<>> THEN <<>> ELSE Head(xs) \o Concat(Tail(xs))

\* x in xs, for a list xs
InList(x, xs) == \E i \in 1..Len(xs) : xs[i] = x

----------------------------------------------------------------------------
(* KCSCBot._get_first *)

RECURSIVE GetFirst(_, _, _)
GetFirst(item, keys, default) ==
    IF keys = <<>> THEN default
    ELSE LET val == Get(item, Head(keys))
         IN  IF val # PyNone /\ val # PyStr(<<>>)
             THEN ToStr(val)
             ELSE GetFirst(item, Tail(keys), default)

name_keys == <<"Name", "name", "TITLE", "Title">>
code_keys == <<"Code", "code", "CODE", "FullCode", "fullCode">>

get_name(it) == GetFirst(it, name_keys, <<>>)
get_code(it) == GetFirst(it, code_keys, <<>>)

----------------------------------------------------------------------------
(* KCSCBot._normalize_tokens *)

\* the words of the affix and synonym tables, one string per Hangul syllable
W_choeso == <<"choe", "so">>
W_choedae == <<"choe", "dae">>
W_gijun == <<"gi", "jun">>
W_gyujeong == <<"gyu", "jeong">>
W_seolgye == <<"seol", "gye">>
W_sigong == <<"si", "gong">>
W_naegu == <<"nae", "gu">>
W_naeguseong == <<"nae", "gu", "seong">>
W_hwangyeong == <<"hwan", "gyeong">>
W_nochul == <<"no", "chul">>
W_jogeon == <<"jo", "geon">>
W_pibok == <<"pi", "bok">>
W_pibokdukke == <<"pi", "bok", "du", "kke">>
W_yeomhae == <<"yeom", "hae">>
W_haean == <<"hae", "an">>
W_yeombun == <<"yeom", "bun">>
W_naeguseolgye == <<"nae", "gu", "seol", "gye">>
W_cheolgeun == <<"cheol", "geun">>
W_konkeuriteu == <<"kon", "keu", "ri", "teu">>
W_cheolgeunkonkeuriteu == W_cheolgeun \o W_konkeuriteu
W_RC == <<"R", "C">>

\* the alternatives of strip_patterns[0], r"^(...)", in the order the regex tries them
prefix_pattern == <<W_choeso, W_choedae, W_gijun, W_gyujeong, W_seolgye, W_sigong,
                    W_naegu, W_naeguseong, W_hwangyeong, W_nochul, W_jogeon>>
\* the alternatives of strip_patterns[1], r"(...)$"
suffix_pattern == <<W_gijun, W_gyujeong, W_hwangyeong, W_nochul, W_jogeon>>

\* re.sub(r"^(a|b|...)", "", t): the first alternative that t starts with is removed
SubPrefix(alts, t) ==
    IF \E i \in 1..Len(alts) : StartsWith(t, alts[i])
    THEN LET i == CHOOSE i \in 1..Len(alts) :
                      /\ StartsWith(t, alts[i])
                      /\ \A j \in 1..(i - 1) : ~StartsWith(t, alts[j])
         IN  SubSeq(t, Len(alts[i]) + 1, Len(t))
    ELSE t

\* re.sub(r"(a|b|...)$", "", t): the alternative that t ends with is removed
SubSuffix(alts, t) ==
    IF \E i \in 1..Len(alts) : EndsWith(t, alts[i])
    THEN LET i == CHOOSE i \in 1..Len(alts) :
                      /\ EndsWith(t, alts[i])
                      /\ \A j \in 1..(i - 1) : ~EndsWith(t, alts[j])
         IN  SubSeq(t, 1, Len(t) - Len(alts[i]))
    ELSE t

\* what one raw token t adds to `expanded`
ExpandToken(t, raw) ==
    LET t0 == Strip(SubSuffix(suffix_pattern, SubPrefix(prefix_pattern, t)))
    IN  (IF t0 # <<>> /\ ~InList(t0, raw) THEN <<t0>> ELSE <<>>)
        \o (IF Contains(W_pibok, t) THEN <<W_pibok, W_pibokdukke>> ELSE <<>>)
        \o (IF Contains(W_pibokdukke, t) THEN <<W_pibokdukke, W_pibok>> ELSE <<>>)
        \o (IF Contains(W_yeomhae, t) \/ Contains(W_haean, t)
            THEN <<W_yeomhae, W_haean, W_yeombun>> ELSE <<>>)
        \o (IF Contains(W_naegu, t)
            THEN <<W_naegu, W_naeguseong, W_naeguseolgye>> ELSE <<>>)
        \o (IF Contains(W_cheolgeun, t)
            THEN <<W_cheolgeun, W_cheolgeunkonkeuriteu, W_RC>> ELSE <<>>)
        \o (IF Contains(W_konkeuriteu, t)
            THEN <<W_konkeuriteu, W_cheolgeunkonkeuriteu, W_RC>> ELSE <<>>)

RECURSIVE ExpandAll(_, _)
ExpandAll(ts, raw) ==
    IF ts = <<>> THEN <<>> ELSE ExpandToken(Head(ts), raw) \o ExpandAll(Tail(ts), raw)

\* the closing loop: strip, drop what is shorter than 2, keep first occurrences
RECURSIVE Uniq(_, _)
Uniq(ts, uniq) ==
    IF ts = <<>> THEN uniq
    ELSE LET t == Strip(Head(ts))
         IN  IF Len(t) < 2 \/ InList(t, uniq)
             THEN Uniq(Tail(ts), uniq)
             ELSE Uniq(Tail(ts), Append(uniq, t))

normalize_tokens(keyword) ==
    LET raw == Split(keyword)
    IN  Uniq(raw \o ExpandAll(raw, raw), <<>>)

----------------------------------------------------------------------------
(* difflib.SequenceMatcher(None, a, b).ratio(), as search_codes_local uses it. *)
(* No junk: isjunk is None, and the popularity heuristic needs len(b) >= 200.  *)

\* a[i .. i+k-1] = b[j .. j+k-1], inside a[alo..ahi] and b[blo..bhi]
IsBlock(a, b, alo, ahi, blo, bhi, i, j, k) ==
    /\ alo <= i /\ i + k - 1 <= ahi
    /\ blo <= j /\ j + k - 1 <= bhi
    /\ SubSeq(a, i, i + k - 1) = SubSeq(b, j, j + k - 1)

\* find_longest_match: the longest block; of those the one starting earliest in a;
\* of those the one starting earliest in b.  <<i, j, k>>, k = 0 when nothing matches
\* the size of the longest block: the largest k <= n that some block has
RECURSIVE LongestSize(_, _, _, _, _, _, _)
LongestSize(a, b, alo, ahi, blo, bhi, n) ==
    IF n = 0 THEN 0
    ELSE IF \E i \in alo..(ahi - n + 1), j \in blo..(bhi - n + 1) :
                IsBlock(a, b, alo, ahi, blo, bhi, i, j, n)
         THEN n
         ELSE LongestSize(a, b, alo, ahi, blo, bhi, n - 1)

find_longest_match(a, b, alo, ahi, blo, bhi) ==
    LET k == LongestSize(a, b, alo, ahi, blo, bhi,
                         IF ahi - alo < bhi - blo THEN ahi - alo + 1 ELSE bhi - blo + 1)
    IN  IF k = 0 THEN <<alo, blo, 0>>
        ELSE LET is == {i \in alo..ahi : \E j \in blo..bhi :
                            IsBlock(a, b, alo, ahi, blo, bhi, i, j, k)}
                 i == CHOOSE x \in is : \A y \in is : x <= y
                 js == {j \in blo..bhi : IsBlock(a, b, alo, ahi, blo, bhi, i, j, k)}
                 j == CHOOSE x \in js : \A y \in js : x <= y
             IN  <<i, j, k>>

\* get_matching_blocks, summed: the size of the longest block plus what matches
\* to its left and to its right
RECURSIVE MatchCount(_, _, _, _, _, _)
MatchCount(a, b, alo, ahi, blo, bhi) ==
    IF alo > ahi \/ blo > bhi THEN 0
    ELSE LET m == find_longest_match(a, b, alo, ahi, blo, bhi)
         IN  IF m[3] = 0 THEN 0
             ELSE m[3]
                  + MatchCount(a, b, alo, m[1] - 1, blo, m[2] - 1)
                  + MatchCount(a, b, m[1] + m[3], ahi, m[2] + m[3], bhi)

\* ratio() = 2.0 * matches / (len(a) + len(b)), 1.0 when both are empty:
\* the fraction <<numerator, denominator>>, denominator > 0
SequenceMatcherRatio(a, b) ==
    IF Len(a) + Len(b) = 0 THEN <<1, 1>>
    ELSE <<2 * MatchCount(a, b, 1, Len(a), 1, Len(b)), Len(a) + Len(b)>>

\* x >= y for two such fractions
FracGe(x, y) == x[1] * y[2] >= y[1] * x[2]

----------------------------------------------------------------------------
(* sorted(items, key=..., reverse=True) *)

\* InsertDesc gone wrong: index i goes before the indices of equal key, as a
\* descending sort built by reversing an ascending one would place it
InsertDescTiesReversed(acc, i, keys) ==
    LET p == Cardinality({j \in 1..Len(acc) : ~FracGe(keys[i], keys[acc[j]])})
    IN  SubSeq(acc, 1, p) \o <<i>> \o SubSeq(acc, p + 1, Len(acc))

\* where index i goes in acc, a list of indices already in descending key order:
\* behind every index whose key is >= keys[i] (equal keys keep their order)
InsertDesc(acc, i, keys) ==
    LET p == Cardinality({j \in 1..Len(acc) : FracGe(keys[acc[j]], keys[i])})
    IN  SubSeq(acc, 1, p) \o <<i>> \o SubSeq(acc, p + 1, Len(acc))

RECURSIVE SortIdx(_, _, _)
SortIdx(keys, i, acc) ==
    IF i > Len(keys) THEN acc ELSE SortIdx(keys, i + 1, InsertDesc(acc, i, keys))

RECURSIVE Pick(_, _)
Pick(items, idx) ==
    IF idx = <<>> THEN <<>> ELSE <<items[Head(idx)]>> \o Pick(items, Tail(idx))

\* the items in descending order of their keys (fractions, one per item), stable
SortedReverse(items, keys) == Pick(items, SortIdx(keys, 1, <<>>))

----------------------------------------------------------------------------
(* KCSCBot.search_codes_local, after get_code_list has returned `items` *)

\* score_contains: 10 for each token that the name contains, case-insensitively
RECURSIVE ScoreLoop(_, _, _)
ScoreLoop(tokens, name_l, s) ==
    IF tokens = <<>> THEN s
    ELSE ScoreLoop(Tail(tokens), name_l,
                   IF Contains(Lower(Head(tokens)), name_l) THEN s + 10 ELSE s)

score_contains(it, tokens) ==
    LET name == get_name(it)
    IN  IF name = <<>> THEN 0 ELSE ScoreLoop(tokens, Lower(name), 0)

\* the key of each item, as the fraction score / 1
RECURSIVE ScoreKeys(_, _)
ScoreKeys(items, tokens) ==
    IF items = <<>> THEN <<>>
    ELSE <<<<score_contains(Head(items), tokens), 1>>>> \o ScoreKeys(Tail(items), tokens)

\* [x for x in ranked if score_contains(x) > 0]
RECURSIVE ScoredOnly(_, _)
ScoredOnly(ranked, tokens) ==
    IF ranked = <<>> THEN <<>>
    ELSE (IF score_contains(Head(ranked), tokens) > 0 THEN <<Head(ranked)>> ELSE <<>>)
         \o ScoredOnly(Tail(ranked), tokens)

\* ranked = sorted(items, key=score_contains, reverse=True), then those with score > 0
RankedPrimary(items, tokens) ==
    ScoredOnly(SortedReverse(items, ScoreKeys(items, tokens)), tokens)

\* ratio(it), against key_compact
ratio(it, key_compact) ==
    LET name == get_name(it)
    IN  IF name = <<>> THEN <<0, 1>>
        ELSE SequenceMatcherRatio(Lower(key_compact), Lower(name))

RECURSIVE RatioKeys(_, _)
RatioKeys(items, key_compact) ==
    IF items = <<>> THEN <<>>
    ELSE <<ratio(Head(items), key_compact)>> \o RatioKeys(Tail(items), key_compact)

\* [x for x in fuzzy if ratio(x) >= 0.20]
RECURSIVE CloseOnly(_, _)
CloseOnly(fuzzy, key_compact) ==
    IF fuzzy = <<>> THEN <<>>
    ELSE (IF FracGe(ratio(Head(fuzzy), key_compact), <<1, 5>>) THEN <<Head(fuzzy)>> ELSE <<>>)
         \o CloseOnly(Tail(fuzzy), key_compact)

\* fuzzy = sorted(items, key=ratio, reverse=True), then those with ratio >= 0.20
RankedFuzzy(items, tokens, keyword) ==
    LET key_compact == IF tokens # <<>> THEN Concat(tokens) ELSE keyword
    IN  CloseOnly(SortedReverse(items, RatioKeys(items, key_compact)), key_compact)

\* CodeUsable gone wrong: the identifier is tested without .strip()
CodeUsableUnstripped(it) == get_code(it) # <<>>

\* `if get_code(it).strip():` the entry has a usable identifier
CodeUsable(it) == Strip(get_code(it)) # <<>>

\* UseFallback gone wrong: the primary ranking is judged empty after the
\* identifier filter, when nothing in it is usable
UseFallbackAfterFilter(ranked) == \A n \in 1..Len(ranked) : ~CodeUsable(ranked[n])

\* `if not ranked:` the fuzzy ranking replaces an empty primary ranking
UseFallback(ranked) == ranked = <<>>

\* the closing loop over ranked: append what is usable, stop once top_k are held
RECURSIVE Cleaned(_, _, _)
Cleaned(ranked, cleaned, top_k) ==
    IF ranked = <<>> THEN cleaned
    ELSE LET c == IF CodeUsable(Head(ranked)) THEN Append(cleaned, Head(ranked)) ELSE cleaned
         IN  IF Len(c) >= top_k THEN c ELSE Cleaned(Tail(ranked), c, top_k)

\* the value returned, and which ranking it was drawn from
search_ranked(items, keyword, top_k) ==
    LET tokens == normalize_tokens(keyword)
        primary == RankedPrimary(items, tokens)
        fallback == UseFallback(primary)
        ranked == IF fallback THEN RankedFuzzy(items, tokens, keyword) ELSE primary
    IN  [value |-> Cleaned(ranked, <<>>, top_k),
         ranking |-> IF fallback THEN "fuzzy" ELSE "contains"]

----------------------------------------------------------------------------
(* KCSCBot._redact_key *)

\* str.replace(old, new) for a non-empty old: left to right, matches do not overlap
RECURSIVE Replace(_, _, _)
Replace(s, old, new) ==
    IF Len(s) < Len(old) THEN s
    ELSE IF StartsWith(s, old)
         THEN new \o Replace(SubSeq(s, Len(old) + 1, Len(s)), old, new)
         ELSE <<Head(s)>> \o Replace(Tail(s), old, new)

REDACTED == <<"*", "*", "*", "R", "E", "D", "A", "C", "T", "E", "D", "*", "*", "*">>

redact_key(text, key) == IF key # <<>> THEN Replace(text, key, REDACTED) ELSE text

----------------------------------------------------------------------------
(* The request URL.  A literal piece of text is written as one element, so   *)
(* it holds no occurrence of a key; what the caller supplies (doc_type,      *)
(* code, key) is spelled out character by character.                         *)

base_url == <<"https://kcsc.re.kr/OpenApi">>

\* urllib's quote_plus, which requests applies to each query value: letters,
\* digits and "_.-~" stay, a space becomes "+", the rest is percent-encoded
QuotePlusChar(c) ==
    CASE c = " " -> <<"+">>
      [] c = "*" -> <<"%", "2", "A">>
      [] c = "<" -> <<"%", "3", "C">>
      [] c = ">" -> <<"%", "3", "E">>
      [] c = "/" -> <<"%", "2", "F">>
      [] OTHER -> <<c>>

RECURSIVE QuotePlus(_)
QuotePlus(s) == IF s = <<>> THEN <<>> ELSE QuotePlusChar(Head(s)) \o QuotePlus(Tail(s))

\* a request of _get_json: the endpoint, or the path in its place, and the
\* params the caller gives, a list of <<name, value>>
EndpointRequest(endpoint, params) == [path |-> <<"/", endpoint>>, params |-> params]
PathRequest(path) == [path |-> <<"/">> \o path, params |-> <<>>]

\* urlencode of the params
RECURSIVE QueryString(_)
QueryString(params) ==
    IF params = <<>> THEN <<>>
    ELSE <<Head(params)[1], "=">> \o QuotePlus(Head(params)[2])
         \o (IF Len(params) > 1 THEN <<"&">> \o QueryString(Tail(params)) ELSE <<>>)

\* path and query string as sent: params.setdefault("key", self.api_key) adds the
\* key behind the caller's params, none of which is named "key" in this code
PathAndQuery(req, key) ==
    req.path \o <<"?">> \o QueryString(Append(req.params, <<"key", key>>))

\* res.url
Url(req, key) == base_url \o PathAndQuery(req, key)

----------------------------------------------------------------------------
(* KCSCBot._get_json: what one call makes of the response `res` to its request *)

Invalid == [t |-> "invalid", v |-> <<>>]

snippet_len == 500

html_prefix == <<"<", "h", "t", "m", "l">>
doctype_prefix == <<"<", "!", "d", "o", "c", "t", "y", "p", "e", " ", "h", "t", "m", "l">>

\* LooksLikeHtml gone wrong: the prefixes are compared without .lower()
LooksLikeHtmlCaseSensitive(text) ==
    StartsWith(text, doctype_prefix) \/ StartsWith(text, html_prefix)

\* the HTML test of line 91
LooksLikeHtml(text) ==
    StartsWith(Lower(text), doctype_prefix) \/ StartsWith(Lower(text), html_prefix)

Raise(type, kind, msg) == [ok |-> FALSE, value |-> PyNone, type |-> type, kind |-> kind, msg |-> msg]
Return(val) == [ok |-> TRUE, value |-> val, type |-> "", kind |-> "", msg |-> <<>>]

\* self.session.get(...): requests raises when no response arrives.  A failed
\* connection names the path and query it was sent to; a read timeout does not
SessionGetError(res, req, key) ==
    IF res.conn = "refused"
    THEN Raise("ConnectionError", "connection",
               <<"HTTPSConnectionPool(host='kcsc.re.kr', port=443): Max retries exceeded with url: ">>
               \o PathAndQuery(req, key))
    ELSE Raise("ReadTimeout", "timeout",
               <<"HTTPSConnectionPool(host='kcsc.re.kr', port=443): Read timed out. (read timeout=25)">>)

\* res.raise_for_status(): HTTPError for a 4xx or 5xx status, naming res.url
RaisesForStatus(res) == 400 <= res.status /\ res.status < 600
StatusError(res, req, key) ==
    Raise("HTTPError", "status",
          Decimal(res.status)
          \o <<IF res.status < 500 THEN " Client Error: " ELSE " Server Error: ", " for url: ">>
          \o Url(req, key))

\* the two RuntimeErrors of lines 91-97 and 101-107.  Their fixed Korean wording is
\* written in English, each fixed piece as one element; the URL and the excerpt
\* are kept character by character
HtmlError(text, res, req, key) ==
    Raise("RuntimeError", "html",
          <<"KCSC OpenAPI returned HTML instead of JSON.", "\n", "- request URL: ">>
          \o redact_key(Url(req, key), key)
          \o <<"\n", "- response head (500 chars): ">>
          \o redact_key(Take(text, snippet_len), key))

ParseError(text, res, req, key) ==
    Raise("RuntimeError", "parse",
          <<"KCSC OpenAPI response could not be parsed as JSON.", "\n", "- request URL: ">>
          \o redact_key(Url(req, key), key)
          \o <<"\n", "- response head (500 chars): ">>
          \o redact_key(Take(text, snippet_len), key)
          \o <<"\n", "- cause: ", "JSONDecodeError: Expecting value">>)

get_json(req, res, key) ==
    IF res.conn # "ok" THEN SessionGetError(res, req, key)
    ELSE IF RaisesForStatus(res) THEN StatusError(res, req, key)
    ELSE LET text == LStrip(res.text)
         IN  IF LooksLikeHtml(text) THEN HtmlError(text, res, req, key)
             ELSE IF res.json = Invalid THEN ParseError(text, res, req, key)
             ELSE Return(res.json)

----------------------------------------------------------------------------
(* The session: st.session_state, the clock, the remote service *)

KCS == <<"K", "C", "S">>
KDS == <<"K", "D", "S">>
\* the doc types of the sidebar's selectbox that the model follows
DocTypes == {KCS, KDS}

\* a key that st.session_state does not hold
Absent == [t |-> "absent", v |-> <<>>]
PyFloat(x) == [t |-> "float", v |-> x]

cache_ttl == 6 * 3600

NoCall == [op |-> "none"]

\* a response that arrived with status 200 and a body that parses to `json`
JsonResponse(json) == [conn |-> "ok", status |-> 200, text |-> <<"(json text)">>, json |-> json]
\* no response: the connection failed
ConnRefused == [conn |-> "refused", status |-> 0, text |-> <<>>, json |-> Invalid]
\* no response: the read timed out after timeout=25
ReadTimedOut == [conn |-> "timeout", status |-> 0, text |-> <<>>, json |-> Invalid]
\* a response with a body that is no JSON
TextResponse(status, text) == [conn |-> "ok", status |-> status, text |-> text, json |-> Invalid]

InitSession(remotes, keys) ==
    /\ codelist = [d \in DocTypes |-> Absent]
    /\ codelist_ts = [d \in DocTypes |-> Absent]
    /\ now = 0
    /\ ticks = 0
    /\ remote \in remotes
    /\ api_key \in keys
    /\ pc = "idle"
    /\ ret = NoCall

MaxTicks == 3

\* time passes between two calls: a second, or a second less than the cache's
\* time to live
Tick(delta) ==
    /\ pc = "idle"
    /\ ticks < MaxTicks
    /\ now' = now + delta
    /\ ticks' = ticks + 1
    /\ UNCHANGED <<codelist, codelist_ts, remote, api_key, pc, ret>>

\* the service replaces the listing of a doc type
Publish(doc_type, listing) ==
    /\ pc = "idle"
    /\ remote[doc_type] # listing
    /\ remote' = [remote EXCEPT ![doc_type] = listing]
    /\ UNCHANGED <<codelist, codelist_ts, now, ticks, api_key, pc, ret>>

\* the script's run has consumed the outcome of the call
Finish ==
    /\ pc = "done"
    /\ pc' = "idle"
    /\ ret' = NoCall
    /\ UNCHANGED <<codelist, codelist_ts, now, ticks, remote, api_key>>

----------------------------------------------------------------------------
(* KCSCBot.get_code_list *)

\* CacheHit gone wrong: a record exactly 6 hours old still counts as fresh
CacheHitInclusive(doc_type) ==
    /\ codelist[doc_type] # Absent
    /\ codelist_ts[doc_type] # Absent
    /\ now - codelist_ts[doc_type].v <= cache_ttl

\* lines 139-141: both keys are held and the record is younger than 6 hours
CacheHit(doc_type) ==
    /\ codelist[doc_type] # Absent
    /\ codelist_ts[doc_type] # Absent
    /\ now - codelist_ts[doc_type].v < cache_ttl

\* the outcome of get_code_list when a miss would be answered by `res`:
\* what it returns or raises, the requests it sent, whether it stores the listing
get_code_list(doc_type, res) ==
    LET req == EndpointRequest("CodeList", <<<<"Type", doc_type>>>>)
        data == get_json(req, res, api_key)
    IN  IF CacheHit(doc_type)
        THEN [out |-> Return(codelist[doc_type]), requests |-> <<>>, store |-> FALSE]
        ELSE IF ~data.ok
        THEN [out |-> data, requests |-> <<req>>, store |-> FALSE]
        ELSE IF data.value.t # "list"
        THEN [out |-> Raise("RuntimeError", "shape",
                            <<"CodeList response has an unexpected form: ", data.value.t>>),
              requests |-> <<req>>, store |-> FALSE]
        ELSE [out |-> data, requests |-> <<req>>, store |-> TRUE]

\* StoreListing gone wrong: the time of every request is kept, the listing only
\* when the request succeeded
StoreListingStampsEveryRequest(g, doc_type) ==
    /\ codelist' = IF g.store THEN [codelist EXCEPT ![doc_type] = g.out.value] ELSE codelist
    /\ codelist_ts' = IF g.requests # <<>>
                      THEN [codelist_ts EXCEPT ![doc_type] = PyFloat(now)]
                      ELSE codelist_ts

\* lines 149-150
StoreListing(g, doc_type) ==
    IF g.store
    THEN /\ codelist' = [codelist EXCEPT ![doc_type] = g.out.value]
         /\ codelist_ts' = [codelist_ts EXCEPT ![doc_type] = PyFloat(now)]
    ELSE UNCHANGED <<codelist, codelist_ts>>

GetCodeList(doc_type, res) ==
    /\ pc = "idle"
    /\ LET g == get_code_list(doc_type, res)
       IN  /\ StoreListing(g, doc_type)
           /\ ret' = [op |-> "get_code_list", doc_type |-> doc_type,
                      at |-> now, out |-> g.out, requests |-> g.requests]
    /\ pc' = "done"
    /\ UNCHANGED <<now, ticks, remote, api_key>>

----------------------------------------------------------------------------
(* KCSCBot.search_codes_local, whole: get_code_list, then the ranking.  The  *)
(* three "__last_...__" diagnostics it leaves in st.session_state are read   *)
(* by the debug panel alone and are not followed.                            *)

SearchCodesLocal(keyword, doc_type, top_k, res) ==
    /\ pc = "idle"
    /\ LET g == get_code_list(doc_type, res)
       IN  /\ StoreListing(g, doc_type)
           /\ ret' = IF g.out.ok
                     THEN LET r == search_ranked(g.out.value.v, keyword, top_k)
                          IN  [op |-> "search_codes_local", keyword |-> keyword,
                               doc_type |-> doc_type, top_k |-> top_k,
                               items |-> g.out.value.v,
                               out |-> Return(PyList(r.value)), ranking |-> r.ranking]
                     ELSE [op |-> "search_codes_local", keyword |-> keyword,
                           doc_type |-> doc_type, top_k |-> top_k,
                           items |-> <<>>, out |-> g.out, ranking |-> "none"]
    /\ pc' = "done"
    /\ UNCHANGED <<now, ticks, remote, api_key>>

----------------------------------------------------------------------------
(* The matcher's specification: one session, any listing for KCS, any query *)

A1 == <<"A", "1">>
A2 == <<"A", "2">>
A4 == <<"A", "4">>
A7 == <<"A", "7">>

\* the entries a listing is drawn from: names under different alias keys and in
\* different case, one name twice, one entry without a name; a code that is empty,
\* blank, null, numeric, or under an alias
EntryPool ==
    { PyDict([Name |-> PyStr(W_pibokdukke), Code |-> PyStr(A1)]),
      PyDict([name |-> PyStr(<<"R", "C", " ", "pi", "bok">>), code |-> PyStr(A2)]),
      PyDict([Name |-> PyStr(<<"pi", "bok", "du", "kke", " ", "r", "c">>), Code |-> PyStr(<<>>)]),
      PyDict([TITLE |-> PyStr(<<"r", "c">>), Code |-> PyStr(<<" ">>), code |-> PyStr(A4)]),
      PyDict([Name |-> PyStr(<<>>), Title |-> PyStr(<<"yeom", "bun", " ", "du", "kke">>),
              Code |-> PyNone, FullCode |-> PyInt(14)]),
      PyDict([FullCode |-> PyStr(A1)]),
      PyDict([Title |-> PyStr(W_pibokdukke), CODE |-> PyStr(A7)]) }

MaxCatalogLen == 3
MaxTopK == 2

RECURSIVE SeqsUpTo(_, _)
SeqsUpTo(S, n) ==
    IF n = 0 THEN {<<>>}
    ELSE LET shorter == SeqsUpTo(S, n - 1)
         IN  shorter \cup {Append(q, x) : q \in shorter, x \in S}

Catalogs == SeqsUpTo(EntryPool, MaxCatalogLen)

\* the keywords get_search_keyword hands over: one that expands to two tokens, the
\* same token in two cases, one with synonyms, one that no name contains, one too
\* short to be a token, none
Keywords ==
    { W_pibokdukke,
      <<"r", "c", " ", "R", "C">>,
      W_yeomhae,
      <<"pi", "kke">>,
      <<"pi">>,
      <<>> }

TheKey == <<"k", "3", "y">>

InitSearch ==
    InitSession({[d \in DocTypes |-> IF d = KCS THEN PyList(c) ELSE PyList(<<>>)] : c \in Catalogs},
                {TheKey})

NextSearch ==
    \/ \E keyword \in Keywords, top_k \in 0..MaxTopK, res \in {JsonResponse(remote[KCS]), ConnRefused} :
           SearchCodesLocal(keyword, KCS, top_k, res)
    \/ Finish

SpecSearch == InitSearch /\ [][NextSearch]_vars

----------------------------------------------------------------------------
(* Claims about search_codes_local *)

\* search_codes_local has returned a list
SearchReturned == pc = "done" /\ ret.op = "search_codes_local" /\ ret.out.ok

\* the identifier an entry resolves to: the value under the first code alias key
\* that holds neither null nor the empty string, "" when there is none
ResolvedCode(it) ==
    LET held == {i \in 1..Len(code_keys) : Get(it, code_keys[i]) \notin {PyNone, PyStr(<<>>)}}
    IN  IF held = {} THEN <<>>
        ELSE ToStr(Get(it, code_keys[CHOOSE i \in held : \A j \in held : i <= j]))

\* s is empty or holds whitespace only
Blank(s) == \A i \in 1..Len(s) : s[i] \in Whitespace

\* the substring score of an entry: 10 for each token whose lowercase form occurs
\* in the entry's lowercase name
SubstringScore(it, keyword) ==
    LET tokens == normalize_tokens(keyword)
    IN  10 * Cardinality({i \in 1..Len(tokens) :
                             Contains(Lower(tokens[i]), Lower(get_name(it)))})

SomeEntryScores == \E n \in 1..Len(ret.items) : SubstringScore(ret.items[n], ret.keyword) > 0

\* C1: search_codes_local never returns an entry whose resolved identifier is
\* missing, empty or whitespace-only.
C1_NoEntryWithoutIdentifier ==
    SearchReturned =>
        \A n \in 1..Len(ret.out.value.v) : ~Blank(ResolvedCode(ret.out.value.v[n]))

\* C1 witness: an entry with no usable identifier has the highest substring score
\* of the listing, and the search returned other entries.
C1_Witness ==
    /\ SearchReturned
    /\ ret.out.value.v # <<>>
    /\ \E n \in 1..Len(ret.items) :
           /\ Blank(ResolvedCode(ret.items[n]))
           /\ SubstringScore(ret.items[n], ret.keyword) > 0
           /\ \A m \in 1..Len(ret.items) :
                  SubstringScore(ret.items[m], ret.keyword)
                      <= SubstringScore(ret.items[n], ret.keyword)

\* C2: whatever the listing and the keyword, for every top_k >= 0 the list that
\* search_codes_local returns has at most top_k entries.
C2_AtMostTopK == SearchReturned => Len(ret.out.value.v) <= ret.top_k

\* listing position i comes before position j in the primary ranking: a higher
\* substring score, or the same score and an earlier position
RankedBefore(i, j) ==
    LET si == SubstringScore(ret.items[i], ret.keyword)
        sj == SubstringScore(ret.items[j], ret.keyword)
    IN  si > sj \/ (si = sj /\ i < j)

\* C3: in the primary pass the returned entries are entries of the listing in
\* non-increasing order of substring score (10 per contained token), entries of
\* equal score in listing order: a subsequence of the ranked list.
C3_PrimaryOrderStable ==
    (SearchReturned /\ SomeEntryScores) =>
        \E idx \in [1..Len(ret.out.value.v) -> 1..Len(ret.items)] :
            /\ \A n \in 1..Len(ret.out.value.v) : ret.out.value.v[n] = ret.items[idx[n]]
            /\ \A n, m \in 1..Len(ret.out.value.v) : n < m => RankedBefore(idx[n], idx[m])

\* C3 witness: two distinct returned entries have the same substring score, and an
\* entry between them in the ranking was dropped for want of an identifier.
C3_Witness ==
    /\ SearchReturned /\ SomeEntryScores
    /\ Len(ret.out.value.v) = 2
    /\ ret.out.value.v[1] # ret.out.value.v[2]
    /\ SubstringScore(ret.out.value.v[1], ret.keyword)
           = SubstringScore(ret.out.value.v[2], ret.keyword)
    /\ Len(ret.items) = 3
    /\ ret.items[1] = ret.out.value.v[1]
    /\ ret.items[3] = ret.out.value.v[2]
    /\ SubstringScore(ret.items[2], ret.keyword) = SubstringScore(ret.items[1], ret.keyword)
    /\ Blank(ResolvedCode(ret.items[2]))

\* C4: the similarity ranking is used exactly when no entry of the listing has a
\* positive substring score, judged before the identifier filter; when some entry
\* has one, every returned entry has one.
C4_FallbackOnlyWhenPrimaryEmpty ==
    SearchReturned =>
        /\ (ret.ranking = "fuzzy") <=> ~SomeEntryScores
        /\ SomeEntryScores =>
               \A n \in 1..Len(ret.out.value.v) :
                   SubstringScore(ret.out.value.v[n], ret.keyword) > 0

\* C4 witness: every entry with a positive substring score lacks an identifier, an
\* entry with an identifier is close enough to qualify for the similarity ranking,
\* and still the search returns nothing from the primary ranking.
C4_Witness ==
    /\ SearchReturned /\ SomeEntryScores
    /\ ret.ranking = "contains"
    /\ ret.out.value.v = <<>>
    /\ ret.top_k > 0
    /\ \E n \in 1..Len(ret.items) :
           /\ ~Blank(ResolvedCode(ret.items[n]))
           /\ FracGe(ratio(ret.items[n], Concat(normalize_tokens(ret.keyword))), <<1, 5>>)

----------------------------------------------------------------------------
(* The cache's specification: the session over time, the service answering *)
(* a listing request in every way it can                                   *)

HtmlPage == <<" ", "<", "H", "T", "M", "L", ">">>

Listings ==
    { PyList(<<>>),
      PyList(<<PyDict([Name |-> PyStr(W_pibokdukke), Code |-> PyStr(A1)])>>) }

\* what may answer a CodeList request for doc_type: the listing, a JSON object in
\* its place, an HTML page, a server error, no connection, no answer in time
ListingResponses(doc_type) ==
    { JsonResponse(remote[doc_type]),
      JsonResponse(PyDict([message |-> PyStr(<<"e", "r", "r">>)])),
      TextResponse(200, HtmlPage),
      TextResponse(200, <<"o", "k">>),
      TextResponse(500, <<>>),
      ConnRefused,
      ReadTimedOut }

Init == InitSession([DocTypes -> Listings], {TheKey})

Next ==
    \/ \E delta \in {1, cache_ttl - 1} : Tick(delta)
    \/ \E doc_type \in DocTypes, listing \in Listings : Publish(doc_type, listing)
    \/ \E doc_type \in DocTypes :
           \E res \in ListingResponses(doc_type) : GetCodeList(doc_type, res)
    \/ Finish

Spec == Init /\ [][Next]_vars

\* the CodeList request of get_code_list
CodeListRequest(doc_type) ==
    [path |-> <<"/", "CodeList">>, params |-> <<<<"Type", doc_type>>>>]

\* C5: get_code_list returns the cached listing without a request to the listing
\* endpoint exactly when a record of the doc type exists and is younger than 21600
\* seconds; otherwise it sends the listing request.
C5_HitIffFresh ==
    [][(pc = "idle" /\ pc' = "done" /\ ret'.op = "get_code_list") =>
          LET d == ret'.doc_type
              fresh == /\ codelist[d] # Absent
                       /\ codelist_ts[d] # Absent
                       /\ now - codelist_ts[d].v < 21600
          IN  /\ fresh => (ret'.requests = <<>> /\ ret'.out = Return(codelist[d]))
              /\ ~fresh => ret'.requests = <<CodeListRequest(d)>>]_vars

\* C5 witness: a lookup one second before the record turns 6 hours old was
\* answered from the cache, though the service holds another listing by then.
C5_Witness ==
    /\ pc = "done" /\ ret.op = "get_code_list"
    /\ codelist_ts[ret.doc_type] # Absent
    /\ ret.at = codelist_ts[ret.doc_type].v + 21600 - 1
    /\ ret.requests = <<>>
    /\ ret.out.ok
    /\ ret.out.value # remote[ret.doc_type]

\* a get_code_list call has just sent the listing request and got a listing
ListingFetched ==
    /\ pc = "idle" /\ pc' = "done"
    /\ ret'.op = "get_code_list"
    /\ ret'.requests # <<>>
    /\ ret'.out.ok

\* C11: the stored listing and the stored time of a doc type are both absent or
\* both written by the same successful fetch of that type: a fetch that succeeds
\* writes the listing it returns and the time of its call for its doc type and
\* leaves every other doc type's record alone; every other step (a hit, a fetch
\* that fails in any way) leaves every record as it was.
C11_RecordWrittenWhole ==
    /\ [](\A d \in DocTypes : (codelist[d] = Absent) <=> (codelist_ts[d] = Absent))
    /\ [][/\ ~ListingFetched => (codelist' = codelist /\ codelist_ts' = codelist_ts)
          /\ ListingFetched =>
                LET d == ret'.doc_type
                IN  /\ codelist'[d] = ret'.out.value
                    /\ codelist_ts'[d] = PyFloat(ret'.at)
                    /\ \A e \in DocTypes \ {d} :
                           codelist'[e] = codelist[e] /\ codelist_ts'[e] = codelist_ts[e]]_vars

\* C11 witness: the refetch of a record that has run out failed, the service holding
\* another listing by then; the record is still the old listing with its old time,
\* and the other doc type holds a record written at another time.
C11_Witness ==
    /\ pc = "done" /\ ret.op = "get_code_list"
    /\ ret.requests # <<>> /\ ~ret.out.ok
    /\ codelist[ret.doc_type] # Absent
    /\ codelist_ts[ret.doc_type] # Absent
    /\ ret.at - codelist_ts[ret.doc_type].v >= 21600
    /\ codelist[ret.doc_type] # remote[ret.doc_type]
    /\ \E e \in DocTypes \ {ret.doc_type} :
           /\ codelist_ts[e] # Absent
           /\ codelist_ts[e] # codelist_ts[ret.doc_type]

----------------------------------------------------------------------------
(* KCSCBot._strip_html.  BeautifulSoup(s, "html.parser").get_text("\n",     *)
(* strip=True) is followed for text between well-formed tags <...>: each    *)
(* run of text is stripped, the empty runs are dropped, the rest is joined  *)
(* by a line break.                                                         *)

\* sep.join(parts)
RECURSIVE Join(_, _)
Join(parts, sep) ==
    IF parts = <<>> THEN <<>>
    ELSE IF Len(parts) = 1 THEN Head(parts)
    ELSE Head(parts) \o sep \o Join(Tail(parts), sep)

\* [p for p in parts if p]
RECURSIVE NonEmpty(_)
NonEmpty(parts) ==
    IF parts = <<>> THEN <<>>
    ELSE (IF Head(parts) # <<>> THEN <<Head(parts)>> ELSE <<>>) \o NonEmpty(Tail(parts))

\* the text runs of s outside its tags; run is the text read since the last tag
RECURSIVE TextRuns(_, _, _)
TextRuns(s, run, in_tag) ==
    IF s = <<>> THEN <<Strip(run)>>
    ELSE IF in_tag THEN TextRuns(Tail(s), run, Head(s) # ">")
    ELSE IF Head(s) = "<" THEN <<Strip(run)>> \o TextRuns(Tail(s), <<>>, TRUE)
    ELSE TextRuns(Tail(s), Append(run, Head(s)), FALSE)

get_text(s) == Join(NonEmpty(TextRuns(s, <<>>, FALSE)), <<"\n">>)

strip_html(s) ==
    IF s = <<>> THEN <<>>
    ELSE IF Contains(<<"<">>, s) /\ Contains(<<">">>, s) THEN get_text(s)
    ELSE s

----------------------------------------------------------------------------
(* KCSCBot.get_content *)

PyTuple(xs) == [t |-> "tuple", v |-> xs]

CodeViewerQuery(code, doc_type) ==
    EndpointRequest("CodeViewer", <<<<"Type", doc_type>>, <<"Code", code>>>>)
CodeViewerPath(code, doc_type) ==
    PathRequest(<<"CodeViewer", "/">> \o doc_type \o <<"/">> \o code)

\* content_data gone wrong: when the retry fails too, the first error is raised
content_data_first_error(code, doc_type, res1, res2, key) ==
    LET first == get_json(CodeViewerQuery(code, doc_type), res1, key)
        second == get_json(CodeViewerPath(code, doc_type), res2, key)
    IN  IF first.ok
        THEN [out |-> first, requests |-> <<CodeViewerQuery(code, doc_type)>>]
        ELSE [out |-> IF second.ok THEN second ELSE first,
              requests |-> <<CodeViewerQuery(code, doc_type), CodeViewerPath(code, doc_type)>>]

\* lines 254-257: the query-parameter request, and on any Exception the path-style
\* one, whose exception is not caught.  The data or the error, and what was sent
content_data(code, doc_type, res1, res2, key) ==
    LET first == get_json(CodeViewerQuery(code, doc_type), res1, key)
        second == get_json(CodeViewerPath(code, doc_type), res2, key)
    IN  IF first.ok
        THEN [out |-> first, requests |-> <<CodeViewerQuery(code, doc_type)>>]
        ELSE [out |-> second,
              requests |-> <<CodeViewerQuery(code, doc_type), CodeViewerPath(code, doc_type)>>]

\* one section of the list: "## title\ncontents" or the contents alone, stripped
section_part(sec) ==
    LET title == Strip(ToStr(Or(Or(Get(sec, "Title"), Get(sec, "title")), PyStr(<<>>))))
        contents == strip_html(ToStr(Or(Or(Get(sec, "Contents"), Get(sec, "contents")),
                                        PyStr(<<>>))))
    IN  IF title # <<>>
        THEN Strip(<<"#", "#", " ">> \o title \o <<"\n">> \o contents)
        ELSE Strip(contents)

RECURSIVE section_parts(_)
section_parts(lst) ==
    IF lst = <<>> THEN <<>> ELSE <<section_part(Head(lst))>> \o section_parts(Tail(lst))

NoAttributeGet(x) ==
    Raise("AttributeError", "attribute", <<"'", x.t, "' object has no attribute 'get'">>)

\* lines 264-280, for the object `data`
flatten_object(data) ==
    LET code_name == ToStr(Or(Or(Get(data, "Name"), Get(data, "name")), PyStr(<<>>)))
        lst == Or(Or(Get(data, "List"), Get(data, "list")), PyList(<<>>))
    IN  IF data.t # "dict" THEN NoAttributeGet(data)
        ELSE IF lst.t = "list"
        THEN IF \E n \in 1..Len(lst.v) : lst.v[n].t # "dict"
             THEN NoAttributeGet(lst.v[CHOOSE n \in 1..Len(lst.v) :
                                          /\ lst.v[n].t # "dict"
                                          /\ \A m \in 1..(n - 1) : lst.v[m].t = "dict"])
             ELSE Return(PyTuple(<<code_name,
                                   Join(NonEmpty(section_parts(lst.v)), <<"\n", "\n">>)>>))
        ELSE Return(PyTuple(<<code_name,
                              Join(NonEmpty(<<strip_html(ToStr(lst))>>), <<"\n", "\n">>)>>))

\* lines 259-280: a list stands for its first element, an empty list for no document
flatten(data) ==
    IF data.t = "list"
    THEN IF data.v = <<>> THEN Return(PyTuple(<<<<>>, <<>>>>)) ELSE flatten_object(data.v[1])
    ELSE flatten_object(data)

get_content(code, doc_type, res1, res2, key) ==
    LET c == content_data(code, doc_type, res1, res2, key)
    IN  [out |-> IF c.out.ok THEN flatten(c.out.value) ELSE c.out, requests |-> c.requests]

GetContent(code, doc_type, res1, res2) ==
    /\ pc = "idle"
    /\ LET g == get_content(code, doc_type, res1, res2, api_key)
       IN  ret' = [op |-> "get_content", code |-> code, doc_type |-> doc_type,
                   res1 |-> res1, res2 |-> res2, out |-> g.out, requests |-> g.requests]
    /\ pc' = "done"
    /\ UNCHANGED <<codelist, codelist_ts, now, ticks, remote, api_key>>

----------------------------------------------------------------------------
(* The content fetcher's specification: every pair of answers to the two *)
(* requests get_content may send                                         *)

Doc == <<"D", "o", "c">>
Scope == <<"S", "c", "o", "p", "e">>
Markup == <<"<", "p", ">", "A", "p", "p", "l", "i", "e", "s", " ", "t", "o", " ", "X", "<", "/", "p", ">">>
Plain == <<"P", "l", "a", "i", "n", " ", "t", "e", "x", "t">>

TwoSections ==
    PyDict([Name |-> PyStr(Doc),
            List |-> PyList(<<PyDict([Title |-> PyStr(Scope), Contents |-> PyStr(Markup)]),
                              PyDict([Contents |-> PyStr(Plain)])>>)])

\* the bodies a CodeViewer answer may parse to: an object with a list of sections;
\* one with no section list; one whose "List" is a string, one whose "list" is a
\* number; a list holding the object; an empty list; a bare string
ContentPayloads ==
    { TwoSections,
      PyDict([Name |-> PyStr(Doc), Contents |-> PyStr(Markup)]),
      PyDict([name |-> PyStr(Doc), List |-> PyStr(Markup)]),
      PyDict([Name |-> PyStr(Doc), list |-> PyInt(7)]),
      PyList(<<TwoSections>>),
      PyList(<<>>),
      PyStr(Plain) }

MaxCodes == 2

\* the identifiers get_content is asked for
Codes == {Decimal(140000 + n) : n \in 1..MaxCodes}

ContentResponses ==
    {JsonResponse(p) : p \in ContentPayloads}
    \cup { TextResponse(200, HtmlPage),
           TextResponse(200, <<"o", "k">>),
           TextResponse(404, HtmlPage),
           ConnRefused,
           ReadTimedOut }

InitContent == InitSession({[d \in DocTypes |-> PyList(<<>>)]}, {TheKey})

NextContent ==
    \/ \E code \in Codes, doc_type \in DocTypes, res1 \in ContentResponses, res2 \in ContentResponses :
           GetContent(code, doc_type, res1, res2)
    \/ Finish

SpecContent == InitContent /\ [][NextContent]_vars

ContentDone == pc = "done" /\ ret.op = "get_content"

\* behind leading whitespace the body begins with <html or <!doctype html, in
\* any case
BeginsWithHtml(text) ==
    \E n \in 0..Len(text) :
       /\ \A m \in 1..n : text[m] \in Whitespace
       /\ \/ /\ n + 5 <= Len(text)
             /\ Lower(SubSeq(text, n + 1, n + 5)) = <<"<", "h", "t", "m", "l">>
          \/ /\ n + 14 <= Len(text)
             /\ Lower(SubSeq(text, n + 1, n + 14))
                    = <<"<", "!", "d", "o", "c", "t", "y", "p", "e", " ", "h", "t", "m", "l">>

\* the request failed: no response, an error status, an HTML body, no JSON
RequestFailed(res) ==
    \/ res.conn # "ok"
    \/ res.status >= 400
    \/ res.json = Invalid
    \/ BeginsWithHtml(res.text)

\* C6: get_content sends the path-style request exactly when the query-parameter
\* request failed, whatever the failure; it sends at most two requests; when both
\* fail, the caller gets the error of the second attempt.
C6_RetryOnceOnAnyFailure ==
    ContentDone =>
        LET query == [path |-> <<"/", "CodeViewer">>,
                      params |-> <<<<"Type", ret.doc_type>>, <<"Code", ret.code>>>>]
            path == [path |-> <<"/", "CodeViewer", "/">> \o ret.doc_type \o <<"/">> \o ret.code,
                     params |-> <<>>]
        IN  /\ RequestFailed(ret.res1) => ret.requests = <<query, path>>
            /\ ~RequestFailed(ret.res1) => ret.requests = <<query>>
            /\ (RequestFailed(ret.res1) /\ RequestFailed(ret.res2)) =>
                   ret.out = get_json(path, ret.res2, api_key)

\* C6 witness: the first request got an HTML page, the retry no connection, and
\* the caller sees the connection error.
C6_Witness ==
    /\ ContentDone
    /\ ret.res1 = TextResponse(200, HtmlPage)
    /\ ret.res2 = ConnRefused
    /\ Len(ret.requests) = 2
    /\ ~ret.out.ok /\ ret.out.type = "ConnectionError"

\* the object get_content flattens: the parsed body of the request that succeeded,
\* or its first element when that is a list
Payload ==
    LET data == IF RequestFailed(ret.res1) THEN ret.res2.json ELSE ret.res1.json
    IN  IF data.t = "list" /\ data.v # <<>> THEN data.v[1] ELSE data

\* C10: when the content object's section sequence is absent, or present but not
\* list-shaped, the whole payload is one unlabeled section: the flattened text has
\* no heading line and is non-empty whenever the payload is non-empty.
C10_WholePayloadWhenNoSectionList ==
    (/\ ContentDone /\ ret.out.ok
     /\ Payload.t = "dict" /\ DOMAIN Payload.v # {}
     /\ Get(Payload, "List").t # "list" /\ Get(Payload, "list").t # "list") =>
        /\ ret.out.value.v[2] # <<>>
        /\ ~StartsWith(ret.out.value.v[2], <<"#", "#", " ">>)

----------------------------------------------------------------------------
(* The transport's specification: _get_json on every request the client *)
(* sends, with every kind of answer, under each key                     *)

GetJson(req, res) ==
    /\ pc = "idle"
    /\ ret' = [op |-> "_get_json", req |-> req, res |-> res, out |-> get_json(req, res, api_key)]
    /\ pc' = "done"
    /\ UNCHANGED <<codelist, codelist_ts, now, ticks, remote, api_key>>

Keys == {TheKey, <<"S", "_", "9">>}

\* the bodies that are no JSON: HTML pages (behind whitespace, in upper case, with
\* a doctype, echoing the key), plain text echoing the key, XML, nothing, and
\* bodies that only resemble the two HTML prefixes
TextBodies(key) ==
    { HtmlPage,
      <<"<", "!", "D", "O", "C", "T", "Y", "P", "E", " ", "h", "t", "m", "l", ">">>,
      <<"\n", "<", "h", "t", "m", "l", ">">> \o key,
      <<"b", "a", "d", " ">> \o key,
      <<"<", "?", "x", "m", "l">>,
      <<>>,
      <<"<", "h", "t", "m">>,
      <<"x", "<", "h", "t", "m", "l", ">">> }

Statuses == {200, 403, 500}

Responses(key) ==
    {TextResponse(st, text) : st \in Statuses, text \in TextBodies(key)}
    \cup {[JsonResponse(PyList(<<>>)) EXCEPT !.status = st] : st \in Statuses}
    \cup {ConnRefused, ReadTimedOut}

Requests ==
    {EndpointRequest("CodeList", <<<<"Type", d>>>>) : d \in DocTypes}
    \cup {CodeViewerQuery(c, d) : c \in Codes, d \in DocTypes}
    \cup {CodeViewerPath(c, d) : c \in Codes, d \in DocTypes}

InitJson == InitSession({[d \in DocTypes |-> PyList(<<>>)]}, Keys)

NextJson ==
    \/ \E req \in Requests, res \in Responses(api_key) : GetJson(req, res)
    \/ Finish

SpecJson == InitJson /\ [][NextJson]_vars

JsonDone == pc = "done" /\ ret.op = "_get_json"

\* C7, as claimed: a response whose body begins, behind leading whitespace and in
\* any case, with <html or <!doctype html always fails with the HTML-specific
\* error, whatever its HTTP status.
C7_HtmlErrorWhateverStatus ==
    (JsonDone /\ ret.res.conn = "ok" /\ BeginsWithHtml(ret.res.text)) =>
        (~ret.out.ok /\ ret.out.kind = "html")

\* C7, amended: such a response fails with the HTML-specific error when its status
\* is not an error status (raise_for_status lets it pass), and with the HTTP status
\* error when it is; in neither case with the generic parse failure.
C7_HtmlErrorUnlessErrorStatus ==
    (JsonDone /\ ret.res.conn = "ok" /\ BeginsWithHtml(ret.res.text)) =>
        /\ ~ret.out.ok
        /\ ret.res.status < 400 => (ret.out.type = "RuntimeError" /\ ret.out.kind = "html")
        /\ (400 <= ret.res.status /\ ret.res.status < 600) =>
               (ret.out.type = "HTTPError" /\ ret.out.kind = "status")

\* C7 witness: an upper-case HTML page behind leading whitespace, status 200, was
\* reported as HTML.
C7_Witness ==
    /\ JsonDone
    /\ ret.res = TextResponse(200, HtmlPage)
    /\ ret.out.kind = "html"

\* C9: on every failure path of _get_json the error text that reaches the caller
\* does not contain the raw API key.
C9_NoKeyInErrorText ==
    (JsonDone /\ ~ret.out.ok) => ~Contains(api_key, ret.out.msg)

----------------------------------------------------------------------------
(* The redaction's specification: _redact_key on every short text and key *)

RedactKey(text, key) ==
    /\ pc = "idle"
    /\ ret' = [op |-> "_redact_key", text |-> text, key |-> key, out |-> redact_key(text, key)]
    /\ pc' = "done"
    /\ UNCHANGED <<codelist, codelist_ts, now, ticks, remote, api_key>>

MaxTextLen == 3
MaxKeyLen == 2

\* a character of the marker's frame, one of its word, one of neither
RedactAlphabet == {"*", "E", "k"}

NextRedact ==
    \/ \E text \in SeqsUpTo(RedactAlphabet, MaxTextLen), key \in SeqsUpTo(RedactAlphabet, MaxKeyLen) :
           RedactKey(text, key)
    \/ Finish

SpecRedact == InitContent /\ [][NextRedact]_vars

\* C8: for a non-empty key and a text that contains it, the output of _redact_key
\* contains no occurrence of the key.
C8_NoKeyAfterRedaction ==
    (/\ pc = "done" /\ ret.op = "_redact_key"
     /\ ret.key # <<>> /\ Contains(ret.key, ret.text)) =>
        ~Contains(ret.key, ret.out)

====
